---------------------------- MODULE Spec2Model ----------------------------
(***************************************************************************)
(* A model of CLox: the stack virtual machine of src/src/vm.c and the      *)
(* scanner of src/src/scanner.c.                                           *)
(*                                                                         *)
(* The two components do not interact, so each has its own specification  *)
(* over the shared variable list: VMSpec steps the virtual machine and     *)
(* leaves the scanner alone, ScanSpec does the converse.                   *)
(***************************************************************************)
EXTENDS Integers, Sequences, FiniteSets, TLC

VARIABLES
    \* ---- vm.c: the global VM
    stack,        \* vm.stack, slot STACK_MAX being the memory just past the array
    stackTop,     \* vm.stackTop - vm.stack
    chunk,        \* *vm.chunk: [code, constants]
    ip,           \* vm.ip - vm.chunk->code
    vmpc,         \* where the VM's control is: idle, fetch, or in a pop/push call
    instruction,  \* run's local: the opcode being executed
    a, b,         \* BINARY_OP's locals (a also holds the value NEGATE popped)
    constant,     \* run's local: the constant about to be pushed
    vmStatus,     \* ok, or how the process ended
    result,       \* what the last interpret returned
    executed,     \* instructions handed to interpret so far
    ref,          \* the reference stack machine's stack
    \* ---- scanner.c: the global scanner
    source,       \* the buffer given to initScanner, without its terminating NUL
    start,        \* scanner.start - source
    current,      \* scanner.current - source
    line,         \* scanner.line
    token,        \* the Token the last scanToken returned
    tokens,       \* the Tokens of this session, up to and including the first EOF
    pastEnd,      \* the last scanToken was called after the session's EOF
    rescan        \* an earlier session of this scanner moved the cursor

vmVars == <<stack, stackTop, chunk, ip, vmpc, instruction, a, b, constant,
            vmStatus, result, executed, ref>>
scanVars == <<source, start, current, line, token, tokens, pastEnd, rescan>>
vars == <<vmVars, scanVars>>

---------------------------------------------------------------------------
(* Bounds of the model.                                                    *)

\* vm.h's STACK_MAX, scaled down: the number of slots of vm.stack.
STACK_MAX == 2

\* The instructions (RETURNs not counted) all interpret calls together run.
MaxExec == 4

---------------------------------------------------------------------------
(* Value: a C double.  A value is the fraction (-1)^s * n / d in lowest    *)
(* terms; d = 0 encodes the IEEE specials (1/0 an infinity, 0/0 a NaN) and *)
(* zero keeps its sign.  Rounding is not modelled: results are exact.      *)

RECURSIVE GCD(_, _)
GCD(x, y) == IF y = 0 THEN x ELSE GCD(y, x % y)

Norm(s, n, d) ==
    IF d = 0 THEN (IF n = 0 THEN [s |-> 0, n |-> 0, d |-> 0]
                             ELSE [s |-> s, n |-> 1, d |-> 0])
    ELSE LET g == GCD(n, d) IN [s |-> s, n |-> n \div g, d |-> d \div g]

IntVal(k) == [s |-> 0, n |-> k, d |-> 1]
NaN == [s |-> 0, n |-> 0, d |-> 0]
IsNaN(v) == v.n = 0 /\ v.d = 0
IsInf(v) == v.n # 0 /\ v.d = 0
Xor(s, t) == IF s = t THEN 0 ELSE 1

\* -x
Negate(x) == IF IsNaN(x) THEN NaN ELSE [x EXCEPT !.s = 1 - @]

\* x + y
Plus(x, y) ==
    IF IsNaN(x) \/ IsNaN(y) THEN NaN
    ELSE IF IsInf(x) /\ IsInf(y) THEN (IF x.s = y.s THEN x ELSE NaN)
    ELSE IF IsInf(x) THEN x
    ELSE IF IsInf(y) THEN y
    ELSE LET sx == IF x.s = 1 THEN 0 - x.n ELSE x.n
             sy == IF y.s = 1 THEN 0 - y.n ELSE y.n
             num == sx * y.d + sy * x.d
         IN  IF num = 0 THEN [s |-> IF x.s = 1 /\ y.s = 1 THEN 1 ELSE 0,
                              n |-> 0, d |-> 1]
             ELSE IF num < 0 THEN Norm(1, 0 - num, x.d * y.d)
             ELSE Norm(0, num, x.d * y.d)

\* x - y
Minus(x, y) == Plus(x, Negate(y))

\* x * y
Times(x, y) ==
    IF IsNaN(x) \/ IsNaN(y) THEN NaN
    ELSE Norm(Xor(x.s, y.s), x.n * y.n, x.d * y.d)

\* x / y: no divide-by-zero check, IEEE gives an infinity or a NaN
Over(x, y) ==
    IF IsNaN(x) \/ IsNaN(y) THEN NaN
    ELSE Norm(Xor(x.s, y.s), x.n * y.d, x.d * y.n)

---------------------------------------------------------------------------
(* Chunks.                                                                 *)

OP_CONSTANT == 0
OP_CONSTANT_LONG == 1
OP_ADD == 2
OP_SUBTRACT == 3
OP_MULTIPLY == 4
OP_DIVIDE == 5
OP_NEGATE == 6
OP_RETURN == 7

\* The constant table of the chunks interpret is given.
ConstPool == <<IntVal(0), IntVal(1), IntVal(2)>>

\* One encoded instruction: the opcode and its operand bytes.
Instructions ==
    { <<OP_CONSTANT, 1>>, <<OP_CONSTANT, 2>>, <<OP_CONSTANT_LONG, 0, 0, 0>>,
      <<OP_ADD>>, <<OP_SUBTRACT>>, <<OP_MULTIPLY>>, <<OP_DIVIDE>>,
      <<OP_NEGATE>> }

RECURSIVE Flatten(_)
Flatten(is) == IF is = <<>> THEN <<>> ELSE Head(is) \o Flatten(Tail(is))

\* The well-formed chunks of k instructions and a closing RETURN.
ChunksOf(k) ==
    { [code |-> Flatten(is) \o <<OP_RETURN>>, constants |-> ConstPool] :
        is \in [1..k -> Instructions] }

\* The operand bytes that follow an opcode.
OperandBytes(op) ==
    CASE op = OP_CONSTANT -> 1
      [] op = OP_CONSTANT_LONG -> 3
      [] OTHER -> 0

RECURSIVE InstructionsBefore(_, _)
\* The instructions of a code from offset o up to its first RETURN.
InstructionsBefore(code, o) ==
    IF code[o + 1] = OP_RETURN THEN 0
    ELSE 1 + InstructionsBefore(code, o + 1 + OperandBytes(code[o + 1]))

\* -(3 + 4): CONSTANT 3, CONSTANT 4, ADD, NEGATE, RETURN
NegatedSum ==
    [code |-> <<OP_CONSTANT, 0, OP_CONSTANT, 1, OP_ADD, OP_NEGATE, OP_RETURN>>,
     constants |-> <<IntVal(3), IntVal(4)>>]

\* A constant table too long for a one-byte index: entry i holds i.
LongTable == [i \in 1..258 |-> IntVal(i - 1)]

\* CONSTANT_LONG with the operand bytes 0x00 0x01 0x01, then RETURN
LongConstant ==
    [code |-> <<OP_CONSTANT_LONG, 0, 1, 1, OP_RETURN>>,
     constants |-> LongTable]

\* Chunks written out.
Scenarios == {NegatedSum, LongConstant}

\* The chunks interpret is given, by their number of instructions.
Chunks ==
    [k \in 0..MaxExec |->
        ChunksOf(k) \cup {c \in Scenarios : InstructionsBefore(c.code, 0) = k}]

NoChunk == [code |-> <<>>, constants |-> <<>>]

---------------------------------------------------------------------------
(* The virtual machine (vm.c).                                             *)

Slots == 0..STACK_MAX
Zero == IntVal(0)

\* The live part of the stack, bottom first.
LiveStack == [i \in 1..stackTop |-> stack[i - 1]]

\* The pop and push calls run makes, by the place that makes them.
PopPcs == {"pop_b", "pop_a", "pop_negate"}
PushPcs == {"push_constant", "push_binary", "push_negate"}

\* resetStack
resetStack == stackTop' = 0

\* initVM, called again between two interpret calls
initVM ==
    /\ vmStatus = "ok" /\ vmpc = "idle"
    /\ resetStack
    /\ ref' = <<>>
    /\ UNCHANGED <<stack, chunk, ip, vmpc, instruction, a, b, constant,
                   vmStatus, result, executed>>

\* push with the check stackTop >= stack + STACK_MAX
push_atcapacity(value) ==
    IF stackTop >= STACK_MAX
    THEN /\ vmStatus' = "overflow"
         /\ UNCHANGED <<stack, stackTop>>
    ELSE /\ stack' = [stack EXCEPT ![stackTop] = value]
         /\ stackTop' = stackTop + 1
         /\ vmStatus' = "ok"

\* push(value).  The check lets a push through with stackTop = stack +
\* STACK_MAX: that push writes one slot past the array, which is undefined
\* behaviour: either the slot is memory of no consequence and the push goes
\* on as usual, or the write ruins the process.
push(value) ==
    IF stackTop > STACK_MAX
    THEN /\ vmStatus' = "overflow"
         /\ UNCHANGED <<stack, stackTop>>
    ELSE IF stackTop < STACK_MAX
    THEN /\ stack' = [stack EXCEPT ![stackTop] = value]
         /\ stackTop' = stackTop + 1
         /\ vmStatus' = "ok"
    ELSE \/ /\ stack' = [stack EXCEPT ![stackTop] = value]
            /\ stackTop' = stackTop + 1
            /\ vmStatus' = "ok"
         \/ /\ vmStatus' = "undefined"
            /\ UNCHANGED <<stack, stackTop>>

\* pop() without its check of an empty stack
pop_unchecked(popped) ==
    /\ stackTop' = stackTop - 1
    /\ popped' = IF stackTop - 1 \in Slots THEN stack[stackTop - 1] ELSE Zero
    /\ vmStatus' = "ok"
    /\ UNCHANGED stack

\* pop(), the value returned being left in popped'
pop(popped) ==
    IF stackTop = 0
    THEN /\ vmStatus' = "underflow"
         /\ UNCHANGED <<stack, stackTop, popped>>
    ELSE /\ stackTop' = stackTop - 1
         /\ popped' = stack[stackTop - 1]
         /\ vmStatus' = "ok"
         /\ UNCHANGED stack

\* READ_BYTE at offset o
ReadByte(o) == chunk.code[o + 1]

\* x << n on a uint32_t.  The operand is a byte and n at most 16, so no bit
\* is shifted out of the 32.
ShiftLeft(x, n) == x * 2 ^ n

RECURSIVE BitOr(_, _)
\* x | y
BitOr(x, y) ==
    IF x = 0 THEN y
    ELSE IF y = 0 THEN x
    ELSE (IF x % 2 = 1 \/ y % 2 = 1 THEN 1 ELSE 0)
            + 2 * BitOr(x \div 2, y \div 2)

\* readLongIndex with its last |= written as a plain assignment
readLongIndex_assign(o) == ReadByte(o + 2)

\* readLongIndex, reading at offset o
readLongIndex(o) ==
    LET index0 == 0
        index1 == BitOr(index0, ShiftLeft(ReadByte(o), 16))
        index2 == BitOr(index1, ShiftLeft(ReadByte(o + 1), 8))
    IN  BitOr(index2, ReadByte(o + 2))

\* BINARY_OP with its operands taken in the order popped: b op a
BinaryOp_swapped(op, x, y) ==
    CASE op = OP_ADD -> Plus(y, x)
      [] op = OP_SUBTRACT -> Minus(y, x)
      [] op = OP_MULTIPLY -> Times(y, x)
      [] op = OP_DIVIDE -> Over(y, x)

\* a op b of BINARY_OP(op)
BinaryOp(op, x, y) ==
    CASE op = OP_ADD -> Plus(x, y)
      [] op = OP_SUBTRACT -> Minus(x, y)
      [] op = OP_MULTIPLY -> Times(x, y)
      [] op = OP_DIVIDE -> Over(x, y)

\* The reference stack machine: a binary operator pops b, then a, and pushes
\* a op b.  A stack too short for the instruction is left as it is.
RefStep(op, k, st) ==
    LET n == Len(st) IN
    CASE op \in {OP_CONSTANT, OP_CONSTANT_LONG} -> Append(st, k)
      [] op \in {OP_ADD, OP_SUBTRACT, OP_MULTIPLY, OP_DIVIDE} ->
            IF n < 2 THEN st
            ELSE Append(SubSeq(st, 1, n - 2),
                        CASE op = OP_ADD -> Plus(st[n - 1], st[n])
                          [] op = OP_SUBTRACT -> Minus(st[n - 1], st[n])
                          [] op = OP_MULTIPLY -> Times(st[n - 1], st[n])
                          [] op = OP_DIVIDE -> Over(st[n - 1], st[n]))
      [] op = OP_NEGATE ->
            IF n < 1 THEN st
            ELSE Append(SubSeq(st, 1, n - 1), Negate(st[n]))
      [] OTHER -> st

\* interpret(chunk): bind the chunk, point ip at its first byte, enter run
interpret(c, k) ==
    /\ vmStatus = "ok" /\ vmpc = "idle"
    /\ executed + k <= MaxExec
    /\ chunk' = c
    /\ ip' = 0
    /\ vmpc' = "fetch"
    /\ executed' = executed + k
    /\ ref' = LiveStack
    /\ UNCHANGED <<stack, stackTop, instruction, a, b, constant, vmStatus,
                   result>>

\* run: fetch the next instruction and decode it, up to its first pop or push
Dispatch ==
    /\ vmStatus = "ok" /\ vmpc = "fetch"
    /\ LET op == ReadByte(ip) IN
       /\ instruction' = op
       /\ CASE op = OP_CONSTANT ->
                 /\ constant' = chunk.constants[ReadByte(ip + 1) + 1]
                 /\ ip' = ip + 2
                 /\ vmpc' = "push_constant"
                 /\ ref' = RefStep(op, constant', ref)
                 /\ UNCHANGED result
            [] op = OP_CONSTANT_LONG ->
                 /\ constant' = chunk.constants[readLongIndex(ip + 1) + 1]
                 /\ ip' = ip + 4
                 /\ vmpc' = "push_constant"
                 /\ ref' = RefStep(op, constant', ref)
                 /\ UNCHANGED result
            [] op \in {OP_ADD, OP_SUBTRACT, OP_MULTIPLY, OP_DIVIDE} ->
                 /\ ip' = ip + 1
                 /\ vmpc' = "pop_b"
                 /\ ref' = RefStep(op, Zero, ref)
                 /\ UNCHANGED <<constant, result>>
            [] op = OP_NEGATE ->
                 /\ ip' = ip + 1
                 /\ vmpc' = "pop_negate"
                 /\ ref' = RefStep(op, Zero, ref)
                 /\ UNCHANGED <<constant, result>>
            [] op = OP_RETURN ->
                 /\ ip' = ip + 1
                 /\ vmpc' = "idle"
                 /\ result' = "INTERPRET_OK"
                 /\ UNCHANGED <<constant, ref>>
            [] OTHER ->
                 /\ ip' = ip + 1
                 /\ vmpc' = "fetch"
                 /\ UNCHANGED <<constant, result, ref>>
    /\ UNCHANGED <<stack, stackTop, chunk, a, b, vmStatus, executed>>

\* Where control goes when the pop at vmpc returns.
AfterPop ==
    CASE vmpc = "pop_b" -> "pop_a"
      [] vmpc = "pop_a" -> "push_binary"
      [] vmpc = "pop_negate" -> "push_negate"

\* One pop call of run: Value b = pop(); Value a = pop(); or NEGATE's pop()
PopStep ==
    /\ vmStatus = "ok" /\ vmpc \in PopPcs
    /\ IF vmpc = "pop_b" THEN pop(b) /\ UNCHANGED a
                         ELSE pop(a) /\ UNCHANGED b
    /\ vmpc' = IF vmStatus' = "ok" THEN AfterPop ELSE vmpc
    /\ UNCHANGED <<chunk, ip, instruction, constant, result, executed, ref>>

\* The value the push at vmpc is given.
Pushed ==
    CASE vmpc = "push_constant" -> constant
      [] vmpc = "push_binary" -> BinaryOp(instruction, a, b)
      [] vmpc = "push_negate" -> Negate(a)

\* One push call of run; the instruction ends with it and its locals die.
PushStep ==
    /\ vmStatus = "ok" /\ vmpc \in PushPcs
    /\ push(Pushed)
    /\ IF vmStatus' = "ok"
       THEN vmpc' = "fetch" /\ a' = Zero /\ b' = Zero /\ constant' = Zero
       ELSE UNCHANGED <<vmpc, a, b, constant>>
    /\ UNCHANGED <<chunk, ip, instruction, result, executed, ref>>

InitVMState ==
    /\ stack = [i \in Slots |-> Zero]
    /\ stackTop = 0
    /\ chunk = NoChunk
    /\ ip = 0
    /\ vmpc = "idle"
    /\ instruction = OP_RETURN
    /\ a = Zero /\ b = Zero /\ constant = Zero
    /\ vmStatus = "ok"
    /\ result = "none"
    /\ executed = 0
    /\ ref = <<>>

InitScanIdle ==
    /\ source = <<>>
    /\ start = 0
    /\ current = 0
    /\ line = 1
    /\ token = <<>>
    /\ tokens = <<>>
    /\ pastEnd = FALSE
    /\ rescan = FALSE

VMInit == InitVMState /\ InitScanIdle

VMNext ==
    \/ initVM /\ UNCHANGED scanVars
    \/ \E k \in 0..(MaxExec - executed) : \E c \in Chunks[k] :
          interpret(c, k) /\ UNCHANGED scanVars
    \/ Dispatch /\ UNCHANGED scanVars
    \/ PopStep /\ UNCHANGED scanVars
    \/ PushStep /\ UNCHANGED scanVars

VMSpec == VMInit /\ [][VMNext]_vars

---------------------------------------------------------------------------
(* Source text.  A byte is its ASCII code; a source is the sequence of its *)
(* bytes, the terminating NUL left out: byte i (from 0) of a source of n   *)
(* bytes is src[i + 1], and byte n is the NUL.                             *)

Lower == <<"a", "b", "c", "d", "e", "f", "g", "h", "i", "j", "k", "l", "m",
           "n", "o", "p", "q", "r", "s", "t", "u", "v", "w", "x", "y", "z">>
Upper == <<"A", "B", "C", "D", "E", "F", "G", "H", "I", "J", "K", "L", "M",
           "N", "O", "P", "Q", "R", "S", "T", "U", "V", "W", "X", "Y", "Z">>
Digit == <<"0", "1", "2", "3", "4", "5", "6", "7", "8", "9">>
Punct == <<"\t", "\n", "\r", " ", "!", "\"", "(", ")", "*", "+", ",", "-",
           ".", "/", ";", "<", "=", ">", "@", "_", "{", "}">>
PunctCode == <<9, 10, 13, 32, 33, 34, 40, 41, 42, 43, 44, 45,
               46, 47, 59, 60, 61, 62, 64, 95, 123, 125>>

Range(f) == {f[i] : i \in DOMAIN f}
IndexIn(f, c) == CHOOSE i \in DOMAIN f : f[i] = c

\* The ASCII code of each character the model writes.
Ascii ==
    [c \in Range(Lower) \cup Range(Upper) \cup Range(Digit) \cup Range(Punct) |->
        IF c \in Range(Lower) THEN 96 + IndexIn(Lower, c)
        ELSE IF c \in Range(Upper) THEN 64 + IndexIn(Upper, c)
        ELSE IF c \in Range(Digit) THEN 47 + IndexIn(Digit, c)
        ELSE PunctCode[IndexIn(Punct, c)]]

Ch(c) == Ascii[c]
NUL == 0

\* The bytes of a text written as a tuple of characters.
Str(t) == [i \in 1..Len(t) |-> Ch(t[i])]

---------------------------------------------------------------------------
(* The scanner (scanner.c).  Its functions are operators of the source and *)
(* of the scanner fields they read; those that move the cursor or count a  *)
(* line give the new fields back.                                          *)

\* The byte at offset i
ByteAt(src, i) == IF i < Len(src) THEN src[i + 1] ELSE NUL

isAlpha(c) ==
    \/ (c >= Ch("a") /\ c <= Ch("z"))
    \/ (c >= Ch("A") /\ c <= Ch("Z"))
    \/ c = Ch("_")

isDigit(c) == c >= Ch("0") /\ c <= Ch("9")

isAtEnd(src, cur) == ByteAt(src, cur) = NUL

peek(src, cur) == ByteAt(src, cur)

peekNext(src, cur) == IF isAtEnd(src, cur) THEN NUL ELSE ByteAt(src, cur + 1)

\* match without its comparison with the expected character
match_any(src, cur, expected) == ~isAtEnd(src, cur)

\* match(expected): whether it matched; the cursor then moves by one
match(src, cur, expected) ==
    IF isAtEnd(src, cur) THEN FALSE
    ELSE IF ByteAt(src, cur) # expected THEN FALSE
    ELSE TRUE

\* makeToken measuring the lexeme up to and including the byte at the cursor
makeToken_inclusive(type, st, cur, ln) ==
    [type |-> type, buffer |-> "source", start |-> st,
     length |-> cur - st + 1, line |-> ln]

makeToken(type, st, cur, ln) ==
    [type |-> type, buffer |-> "source", start |-> st, length |-> cur - st,
     line |-> ln]

\* errorToken(message): the token points into the message, not the source
errorToken(message, ln) ==
    [type |-> "TOKEN_ERROR", buffer |-> message, start |-> 0,
     length |-> Len(message), line |-> ln]

\* while (peek() != '\n' && !isAtEnd()) advance();
RECURSIVE LineCommentEnd(_, _)
LineCommentEnd(src, cur) ==
    IF peek(src, cur) # Ch("\n") /\ ~isAtEnd(src, cur)
    THEN LineCommentEnd(src, cur + 1)
    ELSE cur

\* The loop over the inside of a block comment, lines 142 to 152
RECURSIVE BlockCommentLoop(_, _, _)
BlockCommentLoop(src, cur, ln) ==
    IF isAtEnd(src, cur) THEN [current |-> cur, line |-> ln]
    ELSE LET ln2 == IF peek(src, cur) = Ch("\n") THEN ln + 1 ELSE ln IN
         IF peek(src, cur) = Ch("*") /\ peekNext(src, cur) = Ch("/")
         THEN [current |-> cur + 2, line |-> ln2]
         ELSE BlockCommentLoop(src, cur + 1, ln2)

\* skipWhitespace consuming a newline without counting the line
RECURSIVE skipWhitespace_nocount(_, _, _)
skipWhitespace_nocount(src, cur, ln) ==
    LET c == peek(src, cur) IN
    IF c \in {Ch(" "), Ch("\r"), Ch("\t"), Ch("\n")}
    THEN skipWhitespace_nocount(src, cur + 1, ln)
    ELSE IF c = Ch("/") /\ peekNext(src, cur) = Ch("/")
    THEN skipWhitespace_nocount(src, LineCommentEnd(src, cur), ln)
    ELSE [current |-> cur, line |-> ln]

\* skipWhitespace.  In case '/', the test for a block comment reads peek(),
\* which is the '/' itself.  The error token of an unterminated block
\* comment is built and dropped.
RECURSIVE skipWhitespace(_, _, _)
skipWhitespace(src, cur, ln) ==
    LET c == peek(src, cur) IN
    IF c \in {Ch(" "), Ch("\r"), Ch("\t")} THEN skipWhitespace(src, cur + 1, ln)
    ELSE IF c = Ch("\n") THEN skipWhitespace(src, cur + 1, ln + 1)
    ELSE IF c = Ch("/") THEN
        IF peekNext(src, cur) = Ch("/")
        THEN skipWhitespace(src, LineCommentEnd(src, cur), ln)
        ELSE IF peek(src, cur) = Ch("*")
        THEN LET r == BlockCommentLoop(src, cur + 2, ln) IN
             skipWhitespace(src, r.current, r.line)
        ELSE [current |-> cur, line |-> ln]
    ELSE [current |-> cur, line |-> ln]

\* memcmp(scanner.start + offset, rest, length) == 0
SameBytes(src, st, rest) ==
    \A i \in 1..Len(rest) : ByteAt(src, st + i - 1) = rest[i]

checkKeyword(src, st, cur, offset, length, rest, type) ==
    IF cur - st = offset + length /\ SameBytes(src, st + offset, Str(rest))
    THEN type
    ELSE "TOKEN_IDENTIFIER"

identifierType(src, st, cur) ==
    LET c0 == ByteAt(src, st)
        c1 == ByteAt(src, st + 1)
        kw(offset, length, rest, type) ==
            checkKeyword(src, st, cur, offset, length, rest, type)
    IN
    CASE c0 = Ch("a") -> kw(1, 2, <<"n", "d">>, "TOKEN_AND")
      [] c0 = Ch("c") -> kw(1, 4, <<"l", "a", "s", "s">>, "TOKEN_CLASS")
      [] c0 = Ch("e") -> kw(1, 3, <<"l", "s", "e">>, "TOKEN_ELSE")
      [] c0 = Ch("f") ->
            IF cur - st > 1
            THEN CASE c1 = Ch("a") -> kw(2, 3, <<"l", "s", "e">>, "TOKEN_FALSE")
                   [] c1 = Ch("o") -> kw(2, 1, <<"r">>, "TOKEN_FOR")
                   [] c1 = Ch("n") -> kw(2, 0, <<>>, "TOKEN_FUN")
                   [] OTHER -> "TOKEN_IDENTIFIER"
            ELSE "TOKEN_IDENTIFIER"
      [] c0 = Ch("i") -> kw(1, 1, <<"f">>, "TOKEN_IF")
      [] c0 = Ch("n") -> kw(1, 3, <<"u", "l", "l">>, "TOKEN_NIL")
      [] c0 = Ch("o") -> kw(1, 1, <<"r">>, "TOKEN_OR")
      [] c0 = Ch("p") ->
            kw(1, 6, <<"r", "i", "n", "t", "l", "n">>, "TOKEN_PRINT")
      [] c0 = Ch("r") -> kw(1, 5, <<"e", "t", "u", "r", "n">>, "TOKEN_RETURN")
      [] c0 = Ch("s") -> kw(1, 4, <<"u", "p", "e", "r">>, "TOKEN_SUPER")
      [] c0 = Ch("t") ->
            IF cur - st > 1
            THEN CASE c1 = Ch("h") -> kw(2, 2, <<"i", "s">>, "TOKEN_THIS")
                   [] c1 = Ch("r") -> kw(2, 2, <<"u", "e">>, "TOKEN_TRUE")
                   [] OTHER -> "TOKEN_IDENTIFIER"
            ELSE "TOKEN_IDENTIFIER"
      [] c0 = Ch("v") -> kw(1, 2, <<"a", "r">>, "TOKEN_VAR")
      [] c0 = Ch("w") -> kw(1, 4, <<"h", "i", "l", "e">>, "TOKEN_WHILE")
      [] OTHER -> "TOKEN_IDENTIFIER"

\* while (isAlpha(peek()) || isDigit(peek())) advance();
RECURSIVE IdentifierEnd(_, _)
IdentifierEnd(src, cur) ==
    IF isAlpha(peek(src, cur)) \/ isDigit(peek(src, cur))
    THEN IdentifierEnd(src, cur + 1)
    ELSE cur

\* identifier(), entered with the cursor past the first character
identifier(src, st, cur, ln) ==
    LET e == IdentifierEnd(src, cur) IN
    [current |-> e, line |-> ln,
     token |-> makeToken(identifierType(src, st, e), st, e, ln)]

\* while (isDigit(peek())) advance();
RECURSIVE DigitsEnd(_, _)
DigitsEnd(src, cur) ==
    IF isDigit(peek(src, cur)) THEN DigitsEnd(src, cur + 1) ELSE cur

\* number() taking a '.' whatever follows it
number_anydot(src, st, cur, ln) ==
    LET e1 == DigitsEnd(src, cur)
        e2 == IF peek(src, e1) = Ch(".")
              THEN DigitsEnd(src, e1 + 1)
              ELSE e1
    IN  [current |-> e2, line |-> ln,
         token |-> makeToken("TOKEN_NUMBER", st, e2, ln)]

\* number(), entered with the cursor past the first digit
number(src, st, cur, ln) ==
    LET e1 == DigitsEnd(src, cur)
        e2 == IF peek(src, e1) = Ch(".") /\ isDigit(peekNext(src, e1))
              THEN DigitsEnd(src, e1 + 1)
              ELSE e1
    IN  [current |-> e2, line |-> ln,
         token |-> makeToken("TOKEN_NUMBER", st, e2, ln)]

\* The loop of string() without its count of newlines
RECURSIVE StringLoop_nocount(_, _, _)
StringLoop_nocount(src, cur, ln) ==
    IF peek(src, cur) # Ch("\"") /\ ~isAtEnd(src, cur)
    THEN StringLoop_nocount(src, cur + 1, ln)
    ELSE [current |-> cur, line |-> ln]

\* The loop of string(): to the closing quote or the end, counting newlines
RECURSIVE StringLoop(_, _, _)
StringLoop(src, cur, ln) ==
    IF peek(src, cur) # Ch("\"") /\ ~isAtEnd(src, cur)
    THEN StringLoop(src, cur + 1,
                    IF peek(src, cur) = Ch("\n") THEN ln + 1 ELSE ln)
    ELSE [current |-> cur, line |-> ln]

\* string() without its test for an unterminated string
string_unchecked(src, st, cur, ln) ==
    LET r == StringLoop(src, cur, ln) IN
    [current |-> r.current + 1, line |-> r.line,
     token |-> makeToken("TOKEN_STRING", st, r.current + 1, r.line)]

\* string(), entered with the cursor past the opening quote
string(src, st, cur, ln) ==
    LET r == StringLoop(src, cur, ln) IN
    IF isAtEnd(src, r.current)
    THEN [current |-> r.current, line |-> r.line,
          token |-> errorToken("Unterminated string.", r.line)]
    ELSE [current |-> r.current + 1, line |-> r.line,
          token |-> makeToken("TOKEN_STRING", st, r.current + 1, r.line)]

\* The one-character tokens of scanToken's switch
SingleCharType ==
    (Ch("(") :> "TOKEN_LEFT_PAREN") @@ (Ch(")") :> "TOKEN_RIGHT_PAREN") @@
    (Ch("{") :> "TOKEN_LEFT_BRACE") @@ (Ch("}") :> "TOKEN_RIGHT_BRACE") @@
    (Ch(";") :> "TOKEN_SEMICOLON") @@ (Ch(",") :> "TOKEN_COMMA") @@
    (Ch(".") :> "TOKEN_DOT") @@ (Ch("-") :> "TOKEN_MINUS") @@
    (Ch("+") :> "TOKEN_PLUS") @@ (Ch("/") :> "TOKEN_SLASH") @@
    (Ch("*") :> "TOKEN_ASTERISK")

\* The tokens that take a following '=': <<without it, with it>>
TwoCharType ==
    (Ch("!") :> <<"TOKEN_BANG", "TOKEN_BANG_EQUAL">>) @@
    (Ch("=") :> <<"TOKEN_EQUAL", "TOKEN_EQUAL_EQUAL">>) @@
    (Ch("<") :> <<"TOKEN_LESS", "TOKEN_LESS_EQUAL">>) @@
    (Ch(">") :> <<"TOKEN_GREATER", "TOKEN_GREATER_EQUAL">>)

\* scanToken() taking its character with peek() where it calls advance()
ScanToken_peek(src, cur, ln) ==
    LET w == skipWhitespace(src, cur, ln)
        st == w.current
        l == w.line
        c == ByteAt(src, st)
        at == st
        done(e, tok) == [start |-> st, current |-> e, line |-> l, token |-> tok]
        from(r) == [start |-> st, current |-> r.current, line |-> r.line,
                    token |-> r.token]
    IN
    IF isAtEnd(src, st) THEN done(st, makeToken("TOKEN_EOF", st, st, l))
    ELSE IF isAlpha(c) THEN from(identifier(src, st, at, l))
    ELSE IF isDigit(c) THEN from(number(src, st, at, l))
    ELSE IF c \in DOMAIN SingleCharType
    THEN done(at, makeToken(SingleCharType[c], st, at, l))
    ELSE IF c \in DOMAIN TwoCharType
    THEN IF match(src, at, Ch("="))
         THEN done(at + 1, makeToken(TwoCharType[c][2], st, at + 1, l))
         ELSE done(at, makeToken(TwoCharType[c][1], st, at, l))
    ELSE IF c = Ch("\"") THEN from(string(src, st, at, l))
    ELSE done(at, errorToken("Unexpected character.", l))

\* scanToken() from cursor cur on line ln: the scanner's fields when it
\* returns, and the token returned
ScanToken(src, cur, ln) ==
    LET w == skipWhitespace(src, cur, ln)
        st == w.current
        l == w.line
        c == ByteAt(src, st)
        at == st + 1
        done(e, tok) == [start |-> st, current |-> e, line |-> l, token |-> tok]
        from(r) == [start |-> st, current |-> r.current, line |-> r.line,
                    token |-> r.token]
    IN
    IF isAtEnd(src, st) THEN done(st, makeToken("TOKEN_EOF", st, st, l))
    ELSE IF isAlpha(c) THEN from(identifier(src, st, at, l))
    ELSE IF isDigit(c) THEN from(number(src, st, at, l))
    ELSE IF c \in DOMAIN SingleCharType
    THEN done(at, makeToken(SingleCharType[c], st, at, l))
    ELSE IF c \in DOMAIN TwoCharType
    THEN IF match(src, at, Ch("="))
         THEN done(at + 1, makeToken(TwoCharType[c][2], st, at + 1, l))
         ELSE done(at, makeToken(TwoCharType[c][1], st, at, l))
    ELSE IF c = Ch("\"") THEN from(string(src, st, at, l))
    ELSE done(at, errorToken("Unexpected character.", l))


\* The bytes the scanner reads.  Every function below gives the highest
\* offset that the function it is named after dereferences; the loops read
\* every offset from where they begin to where they stop, and identifierType
\* reads inside the lexeme only.

Max(x, y) == IF x > y THEN x ELSE y

\* peekNext(): the byte at the cursor, and the next one unless that is NUL
peekNextReads(src, cur) == IF isAtEnd(src, cur) THEN cur ELSE cur + 1

RECURSIVE skipWhitespaceReads(_, _)
skipWhitespaceReads(src, cur) ==
    LET c == peek(src, cur) IN
    IF c \in {Ch(" "), Ch("\r"), Ch("\t"), Ch("\n")}
    THEN skipWhitespaceReads(src, cur + 1)
    ELSE IF c = Ch("/") THEN
        IF peekNext(src, cur) = Ch("/")
        THEN Max(peekNextReads(src, cur),
                 skipWhitespaceReads(src, LineCommentEnd(src, cur)))
        ELSE IF peek(src, cur) = Ch("*")
        THEN skipWhitespaceReads(src, BlockCommentLoop(src, cur + 2, 1).current)
        ELSE peekNextReads(src, cur)
    ELSE cur

\* number(), entered with the cursor past the first digit
numberReads(src, cur) ==
    LET e1 == DigitsEnd(src, cur) IN
    IF peek(src, e1) = Ch(".")
    THEN IF isDigit(peekNext(src, e1))
         THEN DigitsEnd(src, e1 + 1)
         ELSE peekNextReads(src, e1)
    ELSE e1

\* scanToken() from cursor cur
ScanTokenReads(src, cur) ==
    LET st == skipWhitespace(src, cur, 1).current
        c == ByteAt(src, st)
        at == st + 1
        reads ==
            IF isAtEnd(src, st) THEN st
            ELSE IF isAlpha(c) THEN IdentifierEnd(src, at)
            ELSE IF isDigit(c) THEN numberReads(src, at)
            ELSE IF c \in DOMAIN SingleCharType THEN st
            ELSE IF c \in DOMAIN TwoCharType THEN at
            ELSE IF c = Ch("\"") THEN StringLoop(src, at, 1).current
            ELSE st
    IN  Max(skipWhitespaceReads(src, cur), reads)

---------------------------------------------------------------------------
(* The sources scanned.                                                    *)

\* The longest source built from the alphabet.
MaxSrcLen == 4

Alphabet == Range(Str(<<"/", "*", "\n", "\"", "a", "1", ".", "=">>))

\* Every text over the alphabet of at most MaxSrcLen bytes
Texts == UNION {[1..k -> Alphabet] : k \in 0..MaxSrcLen}

\* The keyword set of the language, with the token type of each
Keywords ==
    { [text |-> Str(<<"a", "n", "d">>), type |-> "TOKEN_AND"],
      [text |-> Str(<<"c", "l", "a", "s", "s">>), type |-> "TOKEN_CLASS"],
      [text |-> Str(<<"e", "l", "s", "e">>), type |-> "TOKEN_ELSE"],
      [text |-> Str(<<"f", "a", "l", "s", "e">>), type |-> "TOKEN_FALSE"],
      [text |-> Str(<<"f", "o", "r">>), type |-> "TOKEN_FOR"],
      [text |-> Str(<<"f", "u", "n">>), type |-> "TOKEN_FUN"],
      [text |-> Str(<<"i", "f">>), type |-> "TOKEN_IF"],
      [text |-> Str(<<"n", "u", "l", "l">>), type |-> "TOKEN_NIL"],
      [text |-> Str(<<"o", "r">>), type |-> "TOKEN_OR"],
      [text |-> Str(<<"p", "r", "i", "n", "t", "l", "n">>),
       type |-> "TOKEN_PRINT"],
      [text |-> Str(<<"r", "e", "t", "u", "r", "n">>), type |-> "TOKEN_RETURN"],
      [text |-> Str(<<"s", "u", "p", "e", "r">>), type |-> "TOKEN_SUPER"],
      [text |-> Str(<<"t", "h", "i", "s">>), type |-> "TOKEN_THIS"],
      [text |-> Str(<<"t", "r", "u", "e">>), type |-> "TOKEN_TRUE"],
      [text |-> Str(<<"v", "a", "r">>), type |-> "TOKEN_VAR"],
      [text |-> Str(<<"w", "h", "i", "l", "e">>), type |-> "TOKEN_WHILE"] }

KeywordTexts == {kw.text : kw \in Keywords}
KeywordTypes == {kw.type : kw \in Keywords}

ToUpper(c) == IF c >= Ch("a") /\ c <= Ch("z") THEN c - 32 ELSE c

\* The proper prefixes, the proper extensions by one identifier character and
\* the case variants of the keywords
KeywordPrefixes ==
    {SubSeq(t, 1, k) : <<t, k>> \in
        {<<t, k>> \in KeywordTexts \X (1..6) : k < Len(t)}}
KeywordExtensions ==
    {t \o <<c>> : <<t, c>> \in KeywordTexts \X {Ch("s"), Ch("1"), Ch("_")}}
KeywordCaseVariants ==
    {[t EXCEPT ![1] = ToUpper(@)] : t \in KeywordTexts}
        \cup {[i \in 1..Len(t) |-> ToUpper(t[i])] : t \in KeywordTexts}
KeywordVariants ==
    (KeywordPrefixes \cup KeywordExtensions \cup KeywordCaseVariants)
        \ KeywordTexts

\* Sources written out: the spellings of the scanner's own keyword table that
\* the keyword set lacks, operators, a block comment over two lines, a
\* character of no token
Samples ==
    { Str(<<"f", "n">>),
      Str(<<"1", " ", "+", " ", "2", " ", "*", " ", "3">>),
      Str(<<"!", "=", "=", "<", "=", ">", "=", "<", ">", "!">>),
      Str(<<"(", ")", "{", "}", ";", ",", ".", "-", "+">>),
      Str(<<"a", "/", "*", "\n", "*", "/", "a">>),
      Str(<<"a", "\t", "\r", " ", "/", "/", "a", "\n", "a">>),
      Str(<<"1", ".", "1", "_">>),
      Str(<<"@", "1", ".">>) }

Sources == Texts \cup KeywordTexts \cup KeywordVariants \cup Samples

---------------------------------------------------------------------------
(* The scanner's operations.                                               *)

NoToken ==
    [type |-> "NONE", buffer |-> "source", start |-> 0, length |-> 0,
     line |-> 0]

\* The session has returned its EOF token.
Ended == tokens # <<>> /\ tokens[Len(tokens)].type = "TOKEN_EOF"

\* initScanner without its reset of the line
initScanner_keepline(src) ==
    /\ source' = src
    /\ start' = 0
    /\ current' = 0
    /\ line' = line
    /\ token' = NoToken
    /\ tokens' = <<>>
    /\ pastEnd' = FALSE
    /\ rescan' = (rescan \/ current > 0)

\* initScanner(source)
initScanner(src) ==
    /\ source' = src
    /\ start' = 0
    /\ current' = 0
    /\ line' = 1
    /\ token' = NoToken
    /\ tokens' = <<>>
    /\ pastEnd' = FALSE
    /\ rescan' = (rescan \/ current > 0)

\* scanToken()
scanToken ==
    LET r == ScanToken(source, current, line) IN
    /\ start' = r.start
    /\ current' = r.current
    /\ line' = r.line
    /\ token' = r.token
    /\ tokens' = IF Ended THEN tokens ELSE Append(tokens, r.token)
    /\ pastEnd' = Ended
    /\ UNCHANGED <<source, rescan>>

ScanInit ==
    /\ InitVMState
    /\ source \in Sources
    /\ start = 0
    /\ current = 0
    /\ line = 1
    /\ token = NoToken
    /\ tokens = <<>>
    /\ pastEnd = FALSE
    /\ rescan = FALSE

\* A session starts on any source; a later initScanner is given the same
\* source again or one of the samples.
ScanNext ==
    \/ \E src \in {source} \cup Samples : initScanner(src) /\ UNCHANGED vmVars
    \/ scanToken /\ UNCHANGED vmVars

ScanSpec == ScanInit /\ [][ScanNext]_vars


---------------------------------------------------------------------------
(* Claims about the virtual machine, checked under VMSpec.                 *)

\* C1: every interpret call dispatches its first instruction with an empty
\* stack, whatever earlier interpret calls left behind.
C1_InterpretStartsEmpty ==
    (vmStatus = "ok" /\ vmpc = "fetch" /\ ip = 0) => stackTop = 0

\* C2: a push performed when the stack already holds STACK_MAX values reports
\* the overflow and writes no slot: the stack and its top stay as they were.
C2_PushAtCapacityReports ==
    [][(vmStatus = "ok" /\ vmpc \in PushPcs /\ stackTop >= STACK_MAX)
          => (vmStatus' = "overflow" /\ stack' = stack
              /\ stackTop' = stackTop)]_vars

\* C3: a pop on an empty stack ends in the underflow error with the top of
\* stack and every slot as they were, and the top never goes below the base.
C3_PopOnEmptyFailsClean ==
    /\ [](stackTop >= 0)
    /\ [][(vmStatus = "ok" /\ vmpc \in PopPcs /\ stackTop = 0)
            => (vmStatus' = "underflow" /\ stack' = stack
                /\ stackTop' = stackTop)]_vars

\* C3's case: the second pop of a binary operator found the stack empty.
C3_Witness == vmStatus = "underflow" /\ vmpc = "pop_a" /\ stackTop = 0

\* C4: after each executed instruction that neither underflows nor overflows,
\* the live stack is the reference stack machine's, whose binary operators
\* replace [..., a, b] by [..., a op b].
C4_MatchesReferenceMachine ==
    (vmStatus = "ok" /\ vmpc \in {"fetch", "idle"} /\ stackTop <= STACK_MAX)
        => LiveStack = ref

\* C4's case: SUBTRACT has run on [1, 2] and left [-1].
C4_Witness ==
    /\ vmStatus = "ok" /\ vmpc = "fetch" /\ instruction = OP_SUBTRACT
    /\ stackTop = 1
    /\ stack[0] = Negate(IntVal(1))
    /\ stack[1] = IntVal(2)

---------------------------------------------------------------------------
(* Claims about the scanner, checked under ScanSpec.                       *)

\* The text a token spans in the source
Lexeme(src, t) == SubSeq(src, t.start + 1, t.start + t.length)

\* The number of newline bytes among bytes from..to-1 of the source
RECURSIVE CountNewlines(_, _, _)
CountNewlines(src, from, to) ==
    IF from >= to THEN 0
    ELSE (IF ByteAt(src, from) = Ch("\n") THEN 1 ELSE 0)
             + CountNewlines(src, from + 1, to)

\* The tokens a fresh session on src returns, its EOF token the last
RECURSIVE ScanAll(_, _, _)
ScanAll(src, cur, ln) ==
    LET r == ScanToken(src, cur, ln) IN
    IF r.token.type = "TOKEN_EOF" THEN <<r.token>>
    ELSE <<r.token>> \o ScanAll(src, r.current, r.line)

\* What a token sequence says, wherever its lexemes lie in the source
TokenViews(src, ts) ==
    [i \in DOMAIN ts |->
        <<ts[i].type, ts[i].buffer,
          IF ts[i].buffer = "source" THEN Lexeme(src, ts[i]) ELSE <<>>,
          ts[i].line>>]

\* The offsets (from 1) of the '*' of the first "*/" after an opening "/*"
\* that starts the source
CommentCloses(src) ==
    {k \in 3..(Len(src) - 1) : src[k] = Ch("*") /\ src[k + 1] = Ch("/")}
OpensBlockComment(src) ==
    Len(src) >= 2 /\ src[1] = Ch("/") /\ src[2] = Ch("*")
ClosedBlockComment(src) == OpensBlockComment(src) /\ CommentCloses(src) # {}
OpenBlockComment(src) == OpensBlockComment(src) /\ CommentCloses(src) = {}

\* The source with the block comment that starts it replaced by the
\* newlines the comment holds
WithoutComment(src) ==
    LET k == CHOOSE k \in CommentCloses(src) :
                 \A j \in CommentCloses(src) : k <= j
    IN  [i \in 1..CountNewlines(src, 2, k - 1) |-> Ch("\n")]
            \o SubSeq(src, k + 2, Len(src))

IdentifierShaped(t) ==
    /\ t # <<>>
    /\ isAlpha(t[1])
    /\ \A i \in DOMAIN t : isAlpha(t[i]) \/ isDigit(t[i])

\* C5: a source that is exactly a keyword of the keyword set scans as that
\* keyword's token type, and a proper prefix, a proper extension or a case
\* variant of a keyword scans as IDENTIFIER.
C5_KeywordsAndVariants ==
    tokens # <<>> =>
        /\ \A kw \in Keywords : source = kw.text => tokens[1].type = kw.type
        /\ source \in KeywordVariants => tokens[1].type = "TOKEN_IDENTIFIER"

\* C6: an identifier-shaped lexeme that is no keyword spelling is an
\* IDENTIFIER, and a keyword token type is only given to that keyword.
C6_OnlyKeywordsGetKeywordTypes ==
    \A i \in DOMAIN tokens :
        LET t == tokens[i] IN
        t.buffer = "source" =>
            /\ t.type \in KeywordTypes =>
                  [text |-> Lexeme(source, t), type |-> t.type] \in Keywords
            /\ (IdentifierShaped(Lexeme(source, t))
                   /\ Lexeme(source, t) \notin KeywordTexts)
                  => t.type = "TOKEN_IDENTIFIER"

\* C7: a closed block comment at the start of the source yields no tokens:
\* the session's tokens are those of the source with the comment replaced by
\* its newlines, lines included.
C7_BlockCommentYieldsNoTokens ==
    (ClosedBlockComment(source) /\ Ended)
        => TokenViews(source, tokens)
             = TokenViews(WithoutComment(source),
                          ScanAll(WithoutComment(source), 0, 1))

\* C8: when the input ends inside a block comment, scanToken returns an ERROR
\* token.
C8_UnterminatedCommentIsError ==
    (OpenBlockComment(source) /\ tokens # <<>>)
        => tokens[1].type = "TOKEN_ERROR"

\* The last token is the error of an unterminated string.
UnterminatedString ==
    token.type = "TOKEN_ERROR" /\ token.buffer = "Unterminated string."

\* C9 as claimed: the error token of an unterminated string carries the line
\* on which the string began.
C9_ErrorOnLineStringBegan ==
    UnterminatedString => token.line = 1 + CountNewlines(source, 0, start)

\* C9 as amended: the error token carries the line on which the string began
\* plus the number of newlines inside the string, the line the input ends on.
C9_ErrorOnLineInputEnds ==
    UnterminatedString =>
        /\ current = Len(source)
        /\ token.line = 1 + CountNewlines(source, 0, start)
                          + CountNewlines(source, start, Len(source))

\* C9's case: an unterminated string that spans a newline.
C9_Witness ==
    UnterminatedString /\ CountNewlines(source, start, Len(source)) > 0

\* C10: the line counter is 1 plus the newline bytes consumed, the token just
\* returned carries it, and the lines of successive tokens never decrease.
C10_LineCountsNewlines ==
    /\ line = 1 + CountNewlines(source, 0, current)
    /\ token.type # "NONE" => token.line = line
    /\ \A i \in 1..(Len(tokens) - 1) : tokens[i].line <= tokens[i + 1].line

\* C10's case: a string token that took a newline in, after a token of the
\* line before.
C10_Witness ==
    /\ Len(tokens) >= 2
    /\ token.type = "TOKEN_STRING"
    /\ CountNewlines(source, token.start, current) > 0
    /\ tokens[1].line < token.line

\* C11: once the session has returned its EOF token, every later scanToken
\* call returns an EOF token again, of zero length and on the same line, and
\* leaves the cursor on the terminating NUL.
C11_EofIsIdempotent ==
    /\ [](Ended => (token.type = "TOKEN_EOF" /\ current = Len(source)))
    /\ [][pastEnd' =>
            /\ token'.type = "TOKEN_EOF"
            /\ token'.length = 0
            /\ token'.line = token.line
            /\ line' = line
            /\ current' = current
            /\ ByteAt(source', current') = NUL]_vars

\* C11's case: a call after the EOF of a source of three lines.
C11_Witness ==
    pastEnd /\ token.type = "TOKEN_EOF" /\ token.line = 3 /\ current > 0

\* C12: every scanToken call made with the cursor not on the terminating NUL
\* moves the cursor forward by at least one byte and never past the NUL, so a
\* source of n bytes has returned its EOF after at most n + 1 calls; malformed
\* input comes back as ERROR tokens, which advance like any other.
C12_EveryCallAdvances ==
    /\ [](Len(tokens) <= IF Ended THEN Len(source) + 1 ELSE current)
    /\ [][(Len(tokens') = Len(tokens) + 1 /\ ~isAtEnd(source, current))
            => (current' > current /\ current' <= Len(source))]_vars

\* C12's case: a source of n bytes with an unexpected character that took all
\* of its n + 1 calls to reach EOF.
C12_Witness ==
    /\ Ended
    /\ Len(source) >= 3
    /\ Len(tokens) = Len(source) + 1
    /\ \E i \in 1..Len(tokens) :
          tokens[i].type = "TOKEN_ERROR"
              /\ tokens[i].buffer = "Unexpected character."

---------------------------------------------------------------------------
(* Further claims about the virtual machine, checked under VMSpec.         *)

\* C13: a run of a well-formed chunk stops: every dispatched instruction
\* moves ip forward, ip stays within the code, and the run ends either with
\* INTERPRET_OK at the first RETURN or with the process exiting on a reported
\* stack overflow or underflow; no other result and no other ending exists.
C13_RunEndsOkOrStackError ==
    /\ [](vmStatus \in {"ok", "overflow", "underflow"})
    /\ [](result \in {"none", "INTERPRET_OK"})
    /\ [](ip <= Len(chunk.code))
    /\ []((vmpc = "idle" /\ result = "INTERPRET_OK")
            => chunk.code[ip] = OP_RETURN)
    /\ [][(vmStatus = "ok" /\ vmpc = "fetch") => ip' > ip]_vars

\* The run of NegatedSum that began on an empty stack is at its RETURN.
NegatedSumAtReturn ==
    /\ chunk = NegatedSum /\ vmStatus = "ok" /\ vmpc = "fetch"
    /\ ReadByte(ip) = OP_RETURN
    /\ ref = <<Negate(IntVal(7))>>

\* The run of NegatedSum that began on an empty stack has returned.
NegatedSumReturned ==
    /\ chunk = NegatedSum /\ vmStatus = "ok" /\ vmpc = "idle"
    /\ result = "INTERPRET_OK"
    /\ ref = <<Negate(IntVal(7))>>

\* C14: run from an empty stack, CONSTANT 3, CONSTANT 4, ADD, NEGATE, RETURN
\* has the single value -7 on the stack when RETURN is dispatched, and RETURN
\* removes it: the stack is empty once interpret has returned OK.
C14_ReturnClearsResult ==
    /\ NegatedSumAtReturn => LiveStack = <<Negate(IntVal(7))>>
    /\ NegatedSumReturned => stackTop = 0

\* C15: CONSTANT_LONG reads its three operand bytes b0 b1 b2 as the index
\* b0 * 65536 + b1 * 256 + b2 (0x00 0x01 0x01 is 257), pushes the constant at
\* that index and leaves ip 4 bytes on; CONSTANT reads one operand byte as
\* the index and leaves ip 2 bytes on.
C15_ConstantOperandsDecoded ==
    /\ [][(vmStatus = "ok" /\ vmpc = "fetch"
              /\ ReadByte(ip) = OP_CONSTANT_LONG)
            => /\ ip' = ip + 4
               /\ vmpc' = "push_constant"
               /\ constant' = chunk.constants[ReadByte(ip + 1) * 65536
                                                + ReadByte(ip + 2) * 256
                                                + ReadByte(ip + 3) + 1]]_vars
    /\ [][(vmStatus = "ok" /\ vmpc = "fetch" /\ ReadByte(ip) = OP_CONSTANT)
            => /\ ip' = ip + 2
               /\ vmpc' = "push_constant"
               /\ constant' = chunk.constants[ReadByte(ip + 1) + 1]]_vars
    /\ [][(vmStatus = "ok" /\ vmpc = "push_constant" /\ vmStatus' = "ok")
            => /\ stackTop' = stackTop + 1
               /\ stack'[stackTop] = constant
               /\ ip' = ip]_vars
    /\ []((chunk = LongConstant /\ vmpc = "push_constant")
            => (constant = IntVal(257) /\ ip = 4))

\* C15's case: CONSTANT_LONG 0x00 0x01 0x01 has pushed constant 257 of a table
\* of 258.
C15_Witness ==
    /\ chunk = LongConstant /\ vmStatus = "ok" /\ vmpc = "fetch" /\ ip = 4
    /\ instruction = OP_CONSTANT_LONG
    /\ stackTop >= 1 /\ stack[stackTop - 1] = LongTable[258]

---------------------------------------------------------------------------
(* Further claims about the scanner, checked under ScanSpec.               *)

\* C16: initScanner on a scanner that has scanned before puts start and the
\* cursor at the beginning of the new source and the line at 1, and the
\* tokens the session then returns are, in type, span and line, the tokens a
\* fresh session on that source returns.
C16_InitScannerResets ==
    /\ [][(token'.type = "NONE")
            => (start' = 0 /\ current' = 0 /\ line' = 1)]_vars
    /\ [](rescan =>
            tokens = SubSeq(ScanAll(source, 0, 1), 1, Len(tokens)))

\* C16's case: a session opened on a used scanner has returned its tokens,
\* the last of them on a later line.
C16_Witness ==
    rescan /\ Ended /\ Len(tokens) >= 3 /\ token.line >= 2

\* The decimal digits
DigitBytes == Range(Str(Digit))

\* The end of the longest run of digits that begins at offset k
DigitRunEnd(src, k) ==
    CHOOSE e \in k..Len(src) :
        /\ \A j \in k..(e - 1) : ByteAt(src, j) \in DigitBytes
        /\ ByteAt(src, e) \notin DigitBytes

\* Where the number that begins at offset k ends: after its digits, and after
\* a '.' and the digits behind it if a digit comes right after the '.'
NumberEnd(src, k) ==
    LET e == DigitRunEnd(src, k) IN
    IF ByteAt(src, e) = Ch(".") /\ ByteAt(src, e + 1) \in DigitBytes
    THEN DigitRunEnd(src, e + 1)
    ELSE e

\* C17: the tokens that begin with a digit are the NUMBER tokens; a NUMBER
\* spans the longest run of digits and takes a '.' and the digits after it
\* only if a digit comes right after the '.'; a '.' it leaves is the next
\* token, a DOT.
C17_NumberTakesDotOnlyBeforeDigit ==
    \A i \in 1..Len(tokens) :
        LET t == tokens[i] IN
        t.buffer = "source" =>
            /\ t.type = "TOKEN_NUMBER"
                  <=> ByteAt(source, t.start) \in DigitBytes
            /\ t.type = "TOKEN_NUMBER" =>
                  /\ t.start + t.length = NumberEnd(source, t.start)
                  /\ (ByteAt(source, t.start + t.length) = Ch(".")
                          /\ i < Len(tokens))
                        => /\ tokens[i + 1].type = "TOKEN_DOT"
                           /\ tokens[i + 1].start = t.start + t.length
                           /\ tokens[i + 1].length = 1

\* C17's case: "1." has given NUMBER "1" and then DOT.
C17_Witness ==
    /\ Len(source) = 2 /\ ByteAt(source, 1) = Ch(".")
    /\ Len(tokens) >= 2
    /\ tokens[1].type = "TOKEN_NUMBER" /\ tokens[1].length = 1
    /\ tokens[2].type = "TOKEN_DOT"

\* The operators that an '=' lengthens: the token of the character alone and
\* the token of the character with '=' behind it
OperatorTokens ==
    [c \in {Ch("!"), Ch("="), Ch("<"), Ch(">")} |->
        IF c = Ch("!") THEN <<"TOKEN_BANG", "TOKEN_BANG_EQUAL">>
        ELSE IF c = Ch("=") THEN <<"TOKEN_EQUAL", "TOKEN_EQUAL_EQUAL">>
        ELSE IF c = Ch("<") THEN <<"TOKEN_LESS", "TOKEN_LESS_EQUAL">>
        ELSE <<"TOKEN_GREATER", "TOKEN_GREATER_EQUAL">>]

\* C18: a token that begins with '!', '=', '<' or '>' is the two-character
\* token, of length 2, when the next byte is '=', and otherwise the
\* one-character token, of length 1; the call that returns it leaves the
\* cursor right after the token.
C18_OperatorsTakeEqualsGreedily ==
    /\ \A i \in 1..Len(tokens) :
          LET t == tokens[i]
              c == ByteAt(source, t.start)
          IN  (t.buffer = "source" /\ c \in DOMAIN OperatorTokens) =>
                  IF ByteAt(source, t.start + 1) = Ch("=")
                  THEN t.type = OperatorTokens[c][2] /\ t.length = 2
                  ELSE t.type = OperatorTokens[c][1] /\ t.length = 1
    /\ \A c \in DOMAIN OperatorTokens : \A k \in 1..2 :
          token.type = OperatorTokens[c][k] =>
              (ByteAt(source, token.start) = c
                  /\ current = token.start + token.length)

\* C18's case: "===" has given EQUAL_EQUAL and then EQUAL.
C18_Witness ==
    /\ source = Str(<<"=", "=", "=">>)
    /\ Len(tokens) = 2
    /\ tokens[1].type = "TOKEN_EQUAL_EQUAL" /\ tokens[1].length = 2
    /\ token.type = "TOKEN_EQUAL" /\ token.length = 1 /\ current = 3

---------------------------------------------------------------------------
(* The overflow check of push, checked under VMSpec.                       *)

---------------------------------------------------------------------------
(* The scanner's cursor, checked under ScanSpec.                           *)

\* C20: in every state of the scanner start <= current <= n, n the offset of
\* the terminating NUL: no sequence of scanToken calls moves the cursor past
\* the NUL, and no call reads a byte beyond it.
C20_CursorWithinBuffer ==
    /\ 0 <= start /\ start <= current /\ current <= Len(source)
    /\ ScanTokenReads(source, current) <= Len(source)
    /\ token.type # "NONE" => ScanTokenReads(source, start) <= Len(source)

\* C20's case: a number before a final '.', whose lookahead read the NUL.
C20_Witness ==
    /\ token.type = "TOKEN_NUMBER"
    /\ ByteAt(source, current) = Ch(".")
    /\ current + 1 = Len(source)
    /\ ScanTokenReads(source, start) = Len(source)

=============================================================================
